---- MODULE Spec2Model ----
(***************************************************************************)
(* safe_arch: the m128 wrapper type (src/intel/m128_.rs), its array        *)
(* bridge, its array views, Clone/Copy/Default and its eight fmt impls.    *)
(*                                                                         *)
(* Representation used throughout:                                         *)
(*   f32     a record [s, e, m]: sign bit, 8-bit biased exponent, 23-bit   *)
(*           mantissa field (every bit pattern is one such record);        *)
(*   u32     a pair <<hi, lo>> of 16-bit halves (the model checker's       *)
(*           integers are 32-bit signed, so 0xbf800000 does not fit one);  *)
(*   m128    its storage: a sequence of 16 bytes, lane i (0-based) at      *)
(*           bytes [4i, 4i+4), little-endian (the crate is x86/x86_64      *)
(*           only, lib.rs:140);                                            *)
(*   text    a string.                                                     *)
(***************************************************************************)
EXTENDS Integers, Sequences, FiniteSets, TLC

VARIABLES mem, inp, snap, nwrites, ret

vars == <<mem, inp, snap, nwrites, ret>>

-----------------------------------------------------------------------------
(* Program constants *)

\* [f32; 4]: the number of lanes
Lanes == 4

\* size_of::<f32>()
F32Bytes == 4

\* size_of::<m128>(), asserted by test_m128_size_align
SizeOf_m128 == 16

-----------------------------------------------------------------------------
(* Bounds of the model *)

\* how many entries of Patterns the input arrays are built from
NumPatterns == 12

\* how many lane writes through as_mut a behaviour makes
MaxWrites == 2

\* the largest number of write calls a bounded sink accepts before failing
MaxRoom == 8

-----------------------------------------------------------------------------
(* f32, u32 and bytes *)

F32(s, e, m) == [s |-> s, e |-> e, m |-> m]

\* f32::to_bits: the IEEE-754 binary32 encoding, sign | exponent | mantissa
f32_to_bits_numeric(x) ==
    \* faulty variant: a numeric cast (`x as u32`), truncating toward zero
    IF x.e = 255 /\ x.m # 0 THEN <<0, 0>>
    ELSE IF x.s = 1 \/ x.e < 127 THEN <<0, 0>>
    ELSE IF x.e > 127 + 15 THEN <<65535, 65535>>
    ELSE <<0, (8388608 + x.m) \div (2 ^ (150 - x.e))>>

f32_to_bits(x) ==
    <<x.s * 32768 + x.e * 128 + (x.m \div 65536), x.m % 65536>>

\* the 32 bits an f32 occupies in memory
Bits(x) ==
    <<x.s * 32768 + x.e * 128 + (x.m \div 65536), x.m % 65536>>

\* f32::from_bits
f32_from_bits(u) ==
    F32(u[1] \div 32768, (u[1] \div 128) % 256, (u[1] % 128) * 65536 + u[2])

\* the four bytes of one f32 in memory (little-endian)
F32ToBytes(x) ==
    LET u == Bits(x)
    IN  <<u[2] % 256, u[2] \div 256, u[1] % 256, u[1] \div 256>>

F32FromBytes(b) ==
    f32_from_bits(<<b[3] + 256 * b[4], b[1] + 256 * b[2]>>)

\* the storage of a [f32; 4]: its elements in index order, 4 bytes each
ArrayBytes(arr) ==
    F32ToBytes(arr[1]) \o F32ToBytes(arr[2]) \o F32ToBytes(arr[3]) \o F32ToBytes(arr[4])

\* the f32 stored at lane i (1-based here) of 16 bytes of storage
LaneAt(bytes, i) ==
    F32FromBytes(SubSeq(bytes, F32Bytes * (i - 1) + 1, F32Bytes * i))

-----------------------------------------------------------------------------
(* The array bridge *)

\* impl From<[f32; 4]> for m128: transmute(arr), the array's 16 bytes as they are
From_array_for_m128(arr) ==
    ArrayBytes(arr)

\* impl From<m128> for [f32; 4]: transmute(m)
Canonical(x) ==
    IF x.e = 255 /\ x.m # 0 THEN F32(0, 255, 4194304) ELSE x

From_m128_canonical(m) ==
    \* faulty variant: a numeric path on which every NaN becomes the canonical one
    <<Canonical(LaneAt(m, 1)), Canonical(LaneAt(m, 2)),
      Canonical(LaneAt(m, 3)), Canonical(LaneAt(m, 4))>>

From_m128_for_array(m) ==
    <<LaneAt(m, 1), LaneAt(m, 2), LaneAt(m, 3), LaneAt(m, 4)>>

\* m128::to_array: self.into()
to_array(self) == From_m128_for_array(self)

\* m128::from_array: f.into()
from_array(f) == From_array_for_m128(f)

\* core::mem::zeroed::<T>(): size_of::<T>() zero bytes
RECURSIVE Filled(_, _)
Filled(n, byte) ==
    IF n = 0 THEN <<>> ELSE Append(Filled(n - 1, byte), byte)

\* impl Default for m128: core::mem::zeroed()
Default_ones ==
    \* faulty variant: storage that is not zeroed
    Filled(SizeOf_m128, 255)

Default_m128 ==
    Filled(SizeOf_m128, 0)

\* impl Clone for m128: *self
Clone_m128(self) == self

-----------------------------------------------------------------------------
(* Text of numbers: what the per-lane formatters of core::fmt write *)

LowerDigits == <<"0", "1", "2", "3", "4", "5", "6", "7", "8", "9",
                 "a", "b", "c", "d", "e", "f">>

UpperDigits == <<"0", "1", "2", "3", "4", "5", "6", "7", "8", "9",
                 "A", "B", "C", "D", "E", "F">>

RECURSIVE DigitsToStr(_, _)
DigitsToStr(ds, alphabet) ==
    IF ds = <<>> THEN ""
    ELSE alphabet[Head(ds) + 1] \o DigitsToStr(Tail(ds), alphabet)

\* x / base and x % base of a u32 held as 16-bit halves (base divides 65536)
U32Div(x, base) ==
    <<x[1] \div base, ((x[1] % base) * 65536 + x[2]) \div base>>

U32Mod(x, base) ==
    ((x[1] % base) * 65536 + x[2]) % base

\* the digits of an unsigned integer, most significant first: the loop
\* "n = x % base; x = x / base; ... until x == 0" of the integer formatters
RECURSIVE U32Digits(_, _)
U32Digits(x, base) ==
    LET q == U32Div(x, base)
        d == U32Mod(x, base)
    IN  IF q = <<0, 0>> THEN <<d>> ELSE Append(U32Digits(q, base), d)

\* <u32 as Binary / LowerHex / UpperHex / Octal>::fmt, no flags
u32_Binary(x) == DigitsToStr(U32Digits(x, 2), LowerDigits)

u32_LowerHex(x) == DigitsToStr(U32Digits(x, 16), LowerDigits)

u32_UpperHex(x) == DigitsToStr(U32Digits(x, 16), UpperDigits)

u32_Octal(x) == DigitsToStr(U32Digits(x, 8), LowerDigits)

\* Decimal text of an f32. It is modelled for NaN, the infinities, +0.0 and
\* the finite values k/8 with 1/8 <= |value| < 128: for these the exact
\* decimal expansion is the shortest one that reads back as the same f32,
\* which is what the float formatters print.
IsNaN(x) == x.e = 255 /\ x.m # 0

IsInf(x) == x.e = 255 /\ x.m = 0

IsPosZero(x) == x.s = 0 /\ x.e = 0 /\ x.m = 0

IsEighths(x) ==
    /\ x.e >= 124 /\ x.e <= 133
    /\ (8388608 + x.m) % (2 ^ (147 - x.e)) = 0

Renderable(x) == IsNaN(x) \/ IsInf(x) \/ IsPosZero(x) \/ IsEighths(x)

\* |value| * 8, an integer for the values above
Eighths(x) == (8388608 + x.m) \div (2 ^ (147 - x.e))

RECURSIVE NatDigits(_)
NatDigits(n) ==
    IF n < 10 THEN <<n>> ELSE Append(NatDigits(n \div 10), n % 10)

\* the decimal digits of the fraction num/den, den a power of two
RECURSIVE FracDigits(_, _)
FracDigits(num, den) ==
    IF num = 0 THEN <<>>
    ELSE <<(num * 10) \div den>> \o FracDigits((num * 10) % den, den)

IntPart(x) == IF IsPosZero(x) THEN 0 ELSE Eighths(x) \div 8

FracPart(x) == IF IsPosZero(x) THEN <<>> ELSE FracDigits(Eighths(x) % 8, 8)

SignText(x) == IF x.s = 1 THEN "-" ELSE ""

\* fixed notation with at least minFrac digits after the point
FixedText(x, minFrac) ==
    LET ip == DigitsToStr(NatDigits(IntPart(x)), LowerDigits)
        fd == FracPart(x)
        fp == IF Len(fd) < minFrac THEN fd \o [i \in 1..(minFrac - Len(fd)) |-> 0]
              ELSE fd
    IN  SignText(x) \o ip
          \o (IF fp = <<>> THEN "" ELSE "." \o DigitsToStr(fp, LowerDigits))

RECURSIVE StripLeadingZeros(_)
StripLeadingZeros(ds) ==
    IF ds # <<>> /\ Head(ds) = 0 THEN StripLeadingZeros(Tail(ds)) ELSE ds

\* scientific notation: one digit, the remaining significant digits, the
\* marker and the decimal exponent
ExpText(x, marker) ==
    IF IsPosZero(x) THEN "0" \o marker \o "0"
    ELSE LET id  == NatDigits(IntPart(x))
             fd  == FracPart(x)
             sig == IF IntPart(x) > 0 THEN StripLeadingZeros(id \o fd)
                    ELSE StripLeadingZeros(fd)
             ex  == IF IntPart(x) > 0 THEN Len(id) - 1
                    ELSE 0 - (Len(fd) - Len(StripLeadingZeros(fd)) + 1)
             \* the integer part's trailing zeros are not significant
             RECURSIVE Trim(_)
             Trim(ds) == IF Len(ds) > 1 /\ ds[Len(ds)] = 0
                         THEN Trim(SubSeq(ds, 1, Len(ds) - 1)) ELSE ds
             mant == Trim(sig)
         IN  SignText(x) \o LowerDigits[mant[1] + 1]
               \o (IF Len(mant) > 1
                   THEN "." \o DigitsToStr(Tail(mant), LowerDigits) ELSE "")
               \o marker
               \o (IF ex < 0 THEN "-" ELSE "")
               \o DigitsToStr(NatDigits(IF ex < 0 THEN 0 - ex ELSE ex), LowerDigits)

NonFiniteText(x) ==
    IF IsNaN(x) THEN "NaN" ELSE SignText(x) \o "inf"

\* <f32 as Display>::fmt
f32_Display(x) ==
    IF x.e = 255 THEN NonFiniteText(x) ELSE FixedText(x, 0)

\* <f32 as Debug>::fmt: as Display, with at least one digit after the point
f32_Debug(x) ==
    IF x.e = 255 THEN NonFiniteText(x) ELSE FixedText(x, 1)

\* <f32 as LowerExp>::fmt and <f32 as UpperExp>::fmt
f32_LowerExp(x) ==
    IF x.e = 255 THEN NonFiniteText(x) ELSE ExpText(x, "e")

f32_UpperExp(x) ==
    IF x.e = 255 THEN NonFiniteText(x) ELSE ExpText(x, "E")

-----------------------------------------------------------------------------
(* The formatter and the eight fmt impls *)

\* A core::fmt::Formatter over a sink: buf is the text the sink has taken,
\* room the number of write calls it still accepts (-1: a sink that never
\* fails, such as String), err whether a write has failed.
Unbounded == 0 - 1

NewFormatter(room) == [buf |-> "", room |-> room, err |-> FALSE]

write_str(f, s) ==
    IF f.room = 0 THEN [f EXCEPT !.err = TRUE]
    ELSE [buf  |-> f.buf \o s,
          room |-> IF f.room > 0 THEN f.room - 1 ELSE f.room,
          err  |-> FALSE]

\* `write!(f, s)?` and `X::fmt(x, f)?`: the write is reached only if no
\* earlier `?` has returned the error
Then(f, s) == IF f.err THEN f ELSE write_str(f, s)

Policies == {"Debug", "Display", "Binary", "LowerExp", "UpperExp",
             "LowerHex", "UpperHex", "Octal"}

FloatPolicies == {"Debug", "Display", "LowerExp", "UpperExp"}

BitPolicies == Policies \ FloatPolicies

\* the per-lane call of each impl: X::fmt(float, f) or X::fmt(&float.to_bits(), f)
LaneText(policy, float) ==
    CASE policy = "Debug"    -> f32_Debug(float)
      [] policy = "Display"  -> f32_Display(float)
      [] policy = "LowerExp" -> f32_LowerExp(float)
      [] policy = "UpperExp" -> f32_UpperExp(float)
      [] policy = "Binary"   -> u32_Binary(f32_to_bits(float))
      [] policy = "LowerHex" -> u32_LowerHex(f32_to_bits(float))
      [] policy = "UpperHex" -> u32_UpperHex(f32_to_bits(float))
      [] policy = "Octal"    -> u32_Octal(f32_to_bits(float))

\* for (i, float) in self.to_array().iter().enumerate() {
\*   if i != 0 { write!(f, ", ")?; }
\*   X::fmt(float, f)?;
\* }
RECURSIVE TrailingLoopFrom(_, _, _, _)
TrailingLoopFrom(f, arr, i, policy) ==
    \* faulty variant: the separator written after each lane, not between lanes
    IF i >= Lanes THEN f
    ELSE TrailingLoopFrom(Then(Then(f, LaneText(policy, arr[i + 1])), ", "),
                          arr, i + 1, policy)

LaneLoop_trailing(f, arr, policy) == TrailingLoopFrom(f, arr, 0, policy)

RECURSIVE LaneLoopFrom(_, _, _, _)
LaneLoopFrom(f, arr, i, policy) ==
    IF i >= Lanes THEN f
    ELSE LaneLoopFrom(Then(IF i # 0 THEN Then(f, ", ") ELSE f,
                           LaneText(policy, arr[i + 1])),
                      arr, i + 1, policy)

LaneLoop(f, arr, policy) == LaneLoopFrom(f, arr, 0, policy)

\* impl Debug for m128
Debug_fmt_display_lanes(self, f) ==
    \* faulty variant: the lanes written with Display::fmt
    Then(LaneLoop(Then(f, "m128("), to_array(self), "Display"), ")")

Debug_fmt_swallow(self, f) ==
    \* faulty variant: the last write's result dropped and Ok(()) returned
    [Then(LaneLoop(Then(f, "m128("), to_array(self), "Debug"), ")")
        EXCEPT !.err = FALSE]

Debug_fmt(self, f) ==
    Then(LaneLoop(Then(f, "m128("), to_array(self), "Debug"), ")")

\* impl Display for m128
Display_fmt(self, f) ==
    Then(LaneLoop(Then(f, "("), to_array(self), "Display"), ")")

\* impl Binary for m128
Binary_fmt(self, f) ==
    Then(LaneLoop(Then(f, "("), to_array(self), "Binary"), ")")

\* impl LowerExp for m128
LowerExp_fmt_upper(self, f) ==
    \* faulty variant: the lanes written with UpperExp::fmt
    Then(LaneLoop(Then(f, "("), to_array(self), "UpperExp"), ")")

LowerExp_fmt(self, f) ==
    Then(LaneLoop(Then(f, "("), to_array(self), "LowerExp"), ")")

\* impl UpperExp for m128
UpperExp_fmt(self, f) ==
    Then(LaneLoop(Then(f, "("), to_array(self), "UpperExp"), ")")

\* impl LowerHex for m128
LowerHex_fmt(self, f) ==
    Then(LaneLoop(Then(f, "("), to_array(self), "LowerHex"), ")")

\* impl UpperHex for m128
UpperHex_fmt(self, f) ==
    Then(LaneLoop(Then(f, "("), to_array(self), "UpperHex"), ")")

\* impl Octal for m128
Octal_fmt(self, f) ==
    Then(LaneLoop(Then(f, "("), to_array(self), "Octal"), ")")

-----------------------------------------------------------------------------
(* Inputs *)

\* Lane bit patterns: +0.0, 1.0, -1.0, 0.5, 2.0, a quiet NaN with a payload
\* (0x7fc00001), +inf, -inf, a signaling NaN (0x7f800001), -0.0, the
\* smallest subnormal (0x00000001), 10.5, a negative quiet NaN (0xffc00000)
\* and 0.125.
Patterns ==
    << F32(0, 0, 0),         F32(0, 127, 0),       F32(1, 127, 0),
       F32(0, 126, 0),       F32(0, 128, 0),       F32(0, 255, 4194305),
       F32(0, 255, 0),       F32(1, 255, 0),       F32(0, 255, 1),
       F32(1, 0, 0),         F32(0, 0, 1),         F32(0, 130, 2621440),
       F32(1, 255, 4194304), F32(0, 124, 0) >>

PatternAt(k) == Patterns[(k % NumPatterns) + 1]

\* the arrays given to from_array: lane i holds pattern k + s*i, for every
\* start k and stride s (all-equal arrays, and arrays of four distinct lanes)
InputArrays ==
    { <<PatternAt(k), PatternAt(k + s), PatternAt(k + 2 * s), PatternAt(k + 3 * s)>> :
        k \in 0..(NumPatterns - 1), s \in 0..(NumPatterns - 1) }

\* [1.0, -1.0, 0.5, 2.0]
OneMinusOneHalfTwo == <<F32(0, 127, 0), F32(1, 127, 0), F32(0, 126, 0), F32(0, 128, 0)>>

\* the arrays and lane values of the behaviours that clone and write lanes
SampleArrays ==
    { OneMinusOneHalfTwo,
      <<F32(0, 255, 4194305), F32(1, 0, 0), F32(0, 0, 1), F32(1, 255, 0)>> }

WriteVals == { F32(0, 0, 0), F32(0, 255, 1), F32(1, 127, 0) }

-----------------------------------------------------------------------------
(* State *)

\* mem   the storage of the two m128 bindings of the client: v, and c, the
\*       copy it takes of v (not yet bound: <<>>)
\* inp   how v got its value: by default(), by from_array(arr), or since
\*       modified through its writable view
\* snap  v.to_array() as it was when c was last cloned or copied from v,
\*       until c is itself written (<<>>)
\* nwrites  the lane writes made so far
\* ret   the last operation and what it returned
Names == {"v", "c"}

Other(n) == IF n = "v" THEN "c" ELSE "v"

Live(n) == mem[n] # <<>>

NoRet == [op |-> "", who |-> "", lane |-> 0, val |-> F32(0, 0, 0),
          arr |-> <<>>, out |-> "", res |-> "", room |-> 0]

Init ==
    /\ mem = [n \in Names |-> IF n = "v" THEN Default_m128 ELSE <<>>]
    /\ inp = [how |-> "default", arr |-> <<>>]
    /\ snap = <<>>
    /\ nwrites = 0
    /\ ret = [NoRet EXCEPT !.op = "default", !.who = "v"]

\* v = m128::default()
DoDefault ==
    /\ mem' = [mem EXCEPT !["v"] = Default_m128]
    /\ inp' = [how |-> "default", arr |-> <<>>]
    /\ ret' = [NoRet EXCEPT !.op = "default", !.who = "v"]
    /\ UNCHANGED <<snap, nwrites>>

\* v = m128::from_array(a)
DoFromArray(a) ==
    /\ mem' = [mem EXCEPT !["v"] = from_array(a)]
    /\ inp' = [how |-> "from_array", arr |-> a]
    /\ ret' = [NoRet EXCEPT !.op = "from_array", !.who = "v"]
    /\ UNCHANGED <<snap, nwrites>>

\* n.to_array()
DoToArray(n) ==
    /\ Live(n)
    /\ ret' = [NoRet EXCEPT !.op = "to_array", !.who = n, !.arr = to_array(mem[n])]
    /\ UNCHANGED <<mem, inp, snap, nwrites>>

\* impl AsRef<[f32; 4]> for m128 and impl AsMut<[f32; 4]> for m128: the
\* reference transmuted, so the view is at the address of the value itself
as_ref(self) == self

\* faulty variant: every writable view at the address of v
as_mut_shared(self) == "v"

as_mut(self) == self

\* the array read through a view
ReadView(mm, p) ==
    <<LaneAt(mm[p], 1), LaneAt(mm[p], 2), LaneAt(mm[p], 3), LaneAt(mm[p], 4)>>

\* view[i] = x through a writable view (i 0-based): the four bytes of lane i
WriteView_mirrored(mm, p, i, x) ==
    \* faulty variant: the lanes counted from the other end
    [mm EXCEPT ![p] = SubSeq(@, 1, F32Bytes * (Lanes - 1 - i)) \o F32ToBytes(x)
                        \o SubSeq(@, F32Bytes * (Lanes - i) + 1, Len(@))]

WriteView(mm, p, i, x) ==
    [mm EXCEPT ![p] = SubSeq(@, 1, F32Bytes * i) \o F32ToBytes(x)
                        \o SubSeq(@, F32Bytes * (i + 1) + 1, Len(@))]

\* *n.as_ref()
DoAsRef(n) ==
    /\ Live(n)
    /\ ret' = [NoRet EXCEPT !.op = "as_ref", !.who = n,
                            !.arr = ReadView(mem, as_ref(n))]
    /\ UNCHANGED <<mem, inp, snap, nwrites>>

\* n.as_mut()[i] = x
DoAsMutWrite(n, i, x) ==
    /\ Live(n)
    /\ nwrites < MaxWrites
    /\ mem' = WriteView(mem, as_mut(n), i, x)
    /\ inp' = IF n = "v" THEN [how |-> "modified", arr |-> <<>>] ELSE inp
    /\ snap' = IF n = "c" THEN <<>> ELSE snap
    /\ nwrites' = nwrites + 1
    /\ ret' = [NoRet EXCEPT !.op = "as_mut", !.who = n, !.lane = i, !.val = x]

\* let c = v.clone()
DoClone ==
    /\ mem' = [mem EXCEPT !["c"] = Clone_m128(mem["v"])]
    /\ snap' = to_array(mem["v"])
    /\ ret' = [NoRet EXCEPT !.op = "clone", !.who = "c"]
    /\ UNCHANGED <<inp, nwrites>>

\* let c = v (impl Copy for m128: the 16 bytes copied)
DoCopy ==
    /\ mem' = [mem EXCEPT !["c"] = mem["v"]]
    /\ snap' = to_array(mem["v"])
    /\ ret' = [NoRet EXCEPT !.op = "copy", !.who = "c"]
    /\ UNCHANGED <<inp, nwrites>>

\* a fmt call on v with a formatter over a sink of the given room; the float
\* policies are modelled on the lanes whose decimal text is (Renderable)
Sinks == {Unbounded} \cup 0..MaxRoom

FmtReturn(policy, room, f) ==
    /\ policy \in FloatPolicies => \A i \in 1..Lanes : Renderable(to_array(mem["v"])[i])
    /\ ret' = [NoRet EXCEPT !.op = policy, !.who = "v", !.room = room,
                            !.out = f.buf,
                            !.res = IF f.err THEN "Err" ELSE "Ok"]
    /\ UNCHANGED <<mem, inp, snap, nwrites>>

DoDebug == \E room \in Sinks :
    FmtReturn("Debug", room, Debug_fmt(mem["v"], NewFormatter(room)))

DoDisplay == \E room \in Sinks :
    FmtReturn("Display", room, Display_fmt(mem["v"], NewFormatter(room)))

DoBinary == \E room \in Sinks :
    FmtReturn("Binary", room, Binary_fmt(mem["v"], NewFormatter(room)))

DoLowerExp == \E room \in Sinks :
    FmtReturn("LowerExp", room, LowerExp_fmt(mem["v"], NewFormatter(room)))

DoUpperExp == \E room \in Sinks :
    FmtReturn("UpperExp", room, UpperExp_fmt(mem["v"], NewFormatter(room)))

DoLowerHex == \E room \in Sinks :
    FmtReturn("LowerHex", room, LowerHex_fmt(mem["v"], NewFormatter(room)))

DoUpperHex == \E room \in Sinks :
    FmtReturn("UpperHex", room, UpperHex_fmt(mem["v"], NewFormatter(room)))

DoOctal == \E room \in Sinks :
    FmtReturn("Octal", room, Octal_fmt(mem["v"], NewFormatter(room)))

-----------------------------------------------------------------------------
(* Specifications *)

\* a client that constructs, copies, reads and writes lanes
Next ==
    \/ DoDefault
    \/ \E a \in SampleArrays : DoFromArray(a)
    \/ DoClone
    \/ DoCopy
    \/ \E n \in Names : DoToArray(n)
    \/ \E n \in Names : DoAsRef(n)
    \/ \E n \in Names, i \in 0..(Lanes - 1), x \in WriteVals : DoAsMutWrite(n, i, x)

Spec == Init /\ [][Next]_vars

\* a client that constructs a value, makes one call on it and starts again
\* (to_array and the fmt impls take the value by copy or by shared
\* reference and leave it as it is, so longer sequences of these calls
\* reach no further state)
Fresh == ret.op \in {"default", "from_array"}

FmtNext ==
    \/ DoDefault
    \/ Fresh /\ \E a \in InputArrays : DoFromArray(a)
    \/ Fresh /\ DoToArray("v")
    \/ Fresh /\ DoDebug
    \/ Fresh /\ DoDisplay
    \/ Fresh /\ DoBinary
    \/ Fresh /\ DoLowerExp
    \/ Fresh /\ DoUpperExp
    \/ Fresh /\ DoLowerHex
    \/ Fresh /\ DoUpperHex
    \/ Fresh /\ DoOctal

FmtSpec == Init /\ [][FmtNext]_vars

-----------------------------------------------------------------------------
(* Properties *)

V == mem["v"]

Formatted == ret.op \in Policies

FormattedOk == Formatted /\ ret.res = "Ok"

\* the raw 32 bits of lane i (1-based) of 16 bytes of storage, as a u32
RawBits(bytes, i) ==
    <<bytes[4 * i - 1] + 256 * bytes[4 * i], bytes[4 * i - 3] + 256 * bytes[4 * i - 2]>>

Template(prefix, r) ==
    prefix \o "(" \o r[1] \o ", " \o r[2] \o ", " \o r[3] \o ", " \o r[4] \o ")"

PrefixOf(policy) == IF policy = "Debug" THEN "m128" ELSE ""

RadixText(policy, u) ==
    CASE policy = "Binary"   -> u32_Binary(u)
      [] policy = "LowerHex" -> u32_LowerHex(u)
      [] policy = "UpperHex" -> u32_UpperHex(u)
      [] policy = "Octal"    -> u32_Octal(u)

\* the nine writes of a complete rendering, in order
Pieces(policy, m) ==
    << PrefixOf(policy) \o "(",
       LaneText(policy, LaneAt(m, 1)), ", ", LaneText(policy, LaneAt(m, 2)), ", ",
       LaneText(policy, LaneAt(m, 3)), ", ", LaneText(policy, LaneAt(m, 4)), ")" >>

\* one write for the opening, one per lane, one per separator, one for ")"
NumWrites == 2 * Lanes + 1

RECURSIVE ConcatFirst(_, _)
ConcatFirst(ps, k) ==
    IF k = 0 THEN "" ELSE ConcatFirst(ps, k - 1) \o ps[k]

\* C1: for every array a of four lane bit patterns (NaN payloads, signaling
\* NaN, -0.0, subnormals and infinities included), from_array(a).to_array()
\* is a, lane by lane and in the same lane order.
C1_RoundTrip ==
    (ret.op = "to_array" /\ inp.how = "from_array") => ret.arr = inp.arr

C1_Witness ==
    /\ ret.op = "to_array"
    /\ inp.how = "from_array"
    /\ inp.arr = <<F32(0, 255, 1), F32(1, 0, 0), F32(0, 0, 1), F32(0, 130, 2621440)>>
    /\ ret.arr = inp.arr

\* C2: every call of m128::default() gives the all-zero-bits value: each of
\* the four lanes of its to_array() is the bit pattern 0x00000000.
C2_DefaultZero ==
    ret.op = "default" =>
        \A i \in 1..Lanes :
            /\ RawBits(V, i) = <<0, 0>>
            /\ f32_to_bits(to_array(V)[i]) = <<0, 0>>

C2_Witness ==
    /\ ret.op = "default"
    /\ nwrites > 0
    /\ Live("c")
    /\ to_array(mem["c"]) # to_array(V)

\* C3: once c is cloned or copied from v, lane writes through v's writable
\* view leave c.to_array() what v.to_array() was at the clone, and a lane
\* write through the view of either value never changes the other value.
C3_CloneIndependence ==
    /\ [](snap # <<>> => to_array(mem["c"]) = snap)
    /\ [][ret'.op = "as_mut" =>
            mem'[Other(ret'.who)] = mem[Other(ret'.who)]]_vars

C3_Witness ==
    /\ snap # <<>>
    /\ ret.op = "as_mut"
    /\ ret.who = "v"
    /\ nwrites = 2
    /\ to_array(V) # snap
    /\ to_array(mem["c"]) = snap

\* C4: the readable view of a value is lane for lane its to_array(), and a
\* write of x to lane i through its writable view makes lane i of its
\* to_array() x and leaves its other three lanes as they were.
C4_ViewsAlias ==
    /\ [](\A n \in Names : Live(n) => ReadView(mem, as_ref(n)) = to_array(mem[n]))
    /\ [][ret'.op = "as_mut" =>
            LET n == ret'.who
                i == ret'.lane + 1
            IN  /\ to_array(mem'[n])[i] = ret'.val
                /\ \A j \in (1..Lanes) \ {i} :
                       to_array(mem'[n])[j] = to_array(mem[n])[j]]_vars

C4_Witness ==
    /\ ret.op = "as_mut"
    /\ ret.who = "c"
    /\ ret.lane = 2
    /\ ret.val = F32(0, 255, 1)
    /\ to_array(mem["c"])[3] = F32(0, 255, 1)
    /\ to_array(mem["c"])[1] = F32(0, 127, 0)
    /\ inp.how = "from_array"

\* C6: a completed rendering under any of the eight policies is the prefix
\* ("m128" for Debug, empty otherwise), "(", the policy's text of lanes 0..3
\* in order with ", " between them and none after the last, and ")".
C6_Structure ==
    FormattedOk =>
        ret.out = Template(PrefixOf(ret.op),
                           [i \in 1..Lanes |-> LaneText(ret.op, LaneAt(V, i))])

C6_Witness ==
    /\ FormattedOk
    /\ ret.op = "UpperExp"
    /\ inp.arr = <<F32(0, 130, 2621440), F32(0, 0, 0), F32(0, 127, 0), F32(1, 127, 0)>>
    /\ ret.out = "(1.05E1, 0E0, 1E0, -1E0)"

\* C7: under Binary, LowerHex, UpperHex and Octal each lane is the numeral,
\* in that base, of the lane's raw 32 bits taken as an unsigned integer, not
\* of its numeric value; for [1.0, -1.0, 0.5, 2.0] LowerHex gives
\* "(3f800000, bf800000, 3f000000, 40000000)".
C7_BitPattern ==
    /\ (FormattedOk /\ ret.op \in BitPolicies) =>
           ret.out = Template("", [i \in 1..Lanes |-> RadixText(ret.op, RawBits(V, i))])
    /\ (FormattedOk /\ inp.how = "from_array" /\ inp.arr = OneMinusOneHalfTwo) =>
           /\ ret.op = "LowerHex" =>
                  ret.out = "(3f800000, bf800000, 3f000000, 40000000)"
           /\ ret.op = "UpperHex" =>
                  ret.out = "(3F800000, BF800000, 3F000000, 40000000)"
           /\ ret.op = "Octal" =>
                  ret.out = "(7740000000, 27740000000, 7700000000, 10000000000)"
           /\ ret.op = "Binary" =>
                  ret.out = "(111111100000000000000000000000, "
                              \o "10111111100000000000000000000000, "
                              \o "111111000000000000000000000000, "
                              \o "1000000000000000000000000000000)"

C7_Witness ==
    /\ FormattedOk
    /\ ret.op = "LowerHex"
    /\ inp.arr = OneMinusOneHalfTwo
    /\ ret.out = "(3f800000, bf800000, 3f000000, 40000000)"

\* the Display rendering of a value into a sink that never fails
DisplayOf(m) == Display_fmt(m, NewFormatter(Unbounded)).buf

\* C8 as stated: the Debug output of every value is "m128" followed by its
\* Display output.
C8_DebugIsPrefixedDisplay ==
    (FormattedOk /\ ret.op = "Debug") => ret.out = "m128" \o DisplayOf(V)

\* C8, amended: the Debug output is "m128" followed by the same parenthesised
\* list with each lane in f32's Debug text instead of its Display text; it is
\* "m128" followed by the Display output exactly when the two texts agree on
\* every lane (they do not on 0.0: "0.0" and "0").
C8_DebugShape ==
    (FormattedOk /\ ret.op = "Debug") =>
        /\ ret.out = "m128" \o Template("", [i \in 1..Lanes |-> f32_Debug(LaneAt(V, i))])
        /\ (ret.out = "m128" \o DisplayOf(V))
             <=> (\A i \in 1..Lanes : f32_Debug(LaneAt(V, i)) = f32_Display(LaneAt(V, i)))

C8_Witness ==
    /\ FormattedOk
    /\ ret.op = "Debug"
    /\ ret.out = "m128(1.0, -1.0, 0.5, 2.0)"
    /\ DisplayOf(V) = "(1, -1, 0.5, 2)"

\* C9: formatting the default value gives the literal of each doc test.
C9_DefaultLiterals ==
    (FormattedOk /\ inp.how = "default") =>
        ret.out = CASE ret.op = "Debug"    -> "m128(0.0, 0.0, 0.0, 0.0)"
                    [] ret.op = "LowerExp" -> "(0e0, 0e0, 0e0, 0e0)"
                    [] ret.op = "UpperExp" -> "(0E0, 0E0, 0E0, 0E0)"
                    [] OTHER               -> "(0, 0, 0, 0)"

C9_Witness ==
    /\ FormattedOk
    /\ inp.how = "default"
    /\ ret.op = "LowerExp"
    /\ ret.out = "(0e0, 0e0, 0e0, 0e0)"

\* C10 as stated: each fmt impl returns success after writing the complete
\* rendering, whatever the lanes hold.
C10_FmtAlwaysOk ==
    Formatted => (ret.res = "Ok" /\ ret.out = ConcatFirst(Pieces(ret.op, V), NumWrites))

\* C10, amended: each fmt impl returns success, after writing the complete
\* rendering, exactly when the formatter's sink accepts every write (always,
\* for a sink that cannot fail); when a write fails it returns that error at
\* once, the sink holding the writes made before it.
C10_FmtOkUnlessSinkFails ==
    Formatted =>
        LET accepted == ret.room = Unbounded \/ ret.room >= NumWrites
        IN  /\ ret.res \in {"Ok", "Err"}
            /\ ret.res = "Ok" <=> accepted
            /\ ret.out = ConcatFirst(Pieces(ret.op, V), IF accepted THEN NumWrites ELSE ret.room)

C10_Witness ==
    /\ Formatted
    /\ ret.op = "Display"
    /\ ret.room = Unbounded
    /\ ret.res = "Ok"
    /\ inp.arr = <<F32(0, 255, 4194305), F32(0, 255, 0), F32(1, 255, 0), F32(0, 255, 1)>>
    /\ ret.out = "(NaN, inf, -inf, NaN)"

=============================================================================
